---- MODULE Spec2Model ----
(***************************************************************************)
(* Model of sucesos_app (src/main.py): a single SQLite table "sucesos",    *)
(* the three functions that create, append to and load it, the Poisson     *)
(* estimator, and the three Streamlit tabs (record entry, analysis, map).  *)
(*                                                                         *)
(* Conventions.  A nullable value is a sequence: <<>> is NULL / None / NaN *)
(* / NaT and <<v>> is the value v.  Text is a TLA+ string, except date     *)
(* text, which is a sequence of one-character strings so that str(date)    *)
(* and pd.to_datetime are real conversions.  A parsed date is <<y, m, d>>. *)
(* Coordinates are in millionths of a degree (the form's "%.6f").          *)
(* Non-ASCII letters of the source are written in ASCII (anio_sel for      *)
(* año_sel, "Inundacion" for "Inundación").                                *)
(*                                                                         *)
(* Python rejects src/main.py as a whole: the "if allow_write:" of line 120 *)
(* has no body (IndentationError at line 121), so a run of the file        *)
(* executes nothing.  The model is therefore of the units of the file that *)
(* the claims are about, each executed on its own: the functions of lines  *)
(* 22-82, called with any arguments, and the blocks of the three tabs.     *)
(* The block of tab 1 (lines 98-126) holds the error and never runs; the   *)
(* blocks of tab 2 (132-171) and tab 3 (176-204) are well formed.          *)
(*                                                                         *)
(* Every operation overwrites out, so in a state whose out.op names a      *)
(* view, filas is the store that view has read.                            *)
(***************************************************************************)
EXTENDS Integers, Sequences, FiniteSets, TLC

VARIABLES
    tabla,        \* the table sucesos exists in the database file
    filas,        \* the rows of sucesos, in insertion (rowid) order
    seq,          \* sqlite_sequence: the largest id AUTOINCREMENT ever gave
    allow_write,  \* the secret ALLOW_WRITE is "true" (line 101 would read it)
    pandas,       \* the major version of the pandas installed (none is pinned)
    out           \* what the last operation returned, rendered or raised

vars == <<tabla, filas, seq, allow_write, pandas, out>>

\* Largest number of rows the model lets the table hold.
MaxRows == 2

\* datetime.date.today().year
current_year == 2026

NULL == <<>>
Some(v) == <<v>>
IsNull(x) == x = <<>>

(***************************************************************************)
(* Dates and their text.                                                   *)
(***************************************************************************)
Digits == <<"0", "1", "2", "3", "4", "5", "6", "7", "8", "9">>

IsDigit(c) == \E i \in 1..10 : Digits[i] = c

DigitVal(c) == (CHOOSE i \in 1..10 : Digits[i] = c) - 1

IsLeap(y) == (y % 4 = 0 /\ y % 100 # 0) \/ y % 400 = 0

DaysIn(y, m) ==
    IF m = 2 THEN (IF IsLeap(y) THEN 29 ELSE 28)
    ELSE IF m \in {4, 6, 9, 11} THEN 30 ELSE 31

\* A date written as text, as str() and to_csv write it: YYYY-MM-DD.
StrFecha(d) ==
    LET y == d[1]  m == d[2]  dd == d[3]
        ch(n) == Digits[n + 1]
    IN  << ch(y \div 1000), ch((y \div 100) % 10), ch((y \div 10) % 10), ch(y % 10),
           "-", ch(m \div 10), ch(m % 10), "-", ch(dd \div 10), ch(dd % 10) >>

\* The date the text s spells as YYYY<sep>MM<sep>DD, NULL when s has not
\* that shape or the calendar has no such date.
CalDate(s, sep) ==
    IF Len(s) # 10 \/ s[5] # sep \/ s[8] # sep THEN NULL
    ELSE IF \E i \in {1, 2, 3, 4, 6, 7, 9, 10} : ~IsDigit(s[i]) THEN NULL
    ELSE LET y == 1000 * DigitVal(s[1]) + 100 * DigitVal(s[2])
                   + 10 * DigitVal(s[3]) + DigitVal(s[4])
             m == 10 * DigitVal(s[6]) + DigitVal(s[7])
             d == 10 * DigitVal(s[9]) + DigitVal(s[10])
         IN  IF m \in 1..12 /\ d >= 1 /\ d <= DaysIn(y, m) /\ y >= 1
             THEN <<y, m, d>> ELSE NULL

\* The dates datetime64[ns] can hold: 1677-09-22 to 2262-04-11.
InNsRange(f) ==
    LET n == 10000 * f[1] + 100 * f[2] + f[3]
    IN  n >= 16770922 /\ n <= 22620411

\* A date as pandas v keeps it under errors='coerce': before pandas 3 a
\* date outside the nanosecond range is NaT.
Coerce(f, v) == IF IsNull(f) \/ v >= 3 \/ InNsRange(f) THEN f ELSE NULL

\* One cell parsed with the format of separator sep.
ParseWith(t, sep, v) == IF IsNull(t) THEN NULL ELSE Coerce(CalDate(t[1], sep), v)

\* One cell parsed on its own: either spelling is read.
ParseCell(t, v) ==
    IF IsNull(t) THEN NULL
    ELSE IF ~IsNull(CalDate(t[1], "-")) THEN Coerce(CalDate(t[1], "-"), v)
    ELSE Coerce(CalDate(t[1], "/"), v)

\* The format pandas v >= 2 guesses from a cell: its separator, NULL when
\* the cell spells no date.  The guess is validated by parsing the cell
\* with it, which pandas 2 does to nanoseconds: a date out of that range
\* fails the validation and no format is guessed.
GuessFormat(t, v) ==
    IF ~IsNull(Coerce(CalDate(t[1], "-"), v)) THEN Some("-")
    ELSE IF ~IsNull(Coerce(CalDate(t[1], "/"), v)) THEN Some("/")
    ELSE NULL

\* pd.to_datetime(col, errors='coerce') of the column col by pandas v.
\* Before pandas 2 each cell is parsed on its own.  From pandas 2 on the
\* format is guessed from the first non-null cell and every cell is parsed
\* with it, a cell of another spelling becoming NaT; when no format can be
\* guessed each cell is parsed on its own.  The texts modelled are the two
\* spellings YYYY-MM-DD and YYYY/MM/DD and text that is no date; other
\* spellings pandas reads (month names, times, YYYYMMDD) are not modelled.
ToDatetime(col, v) ==
    LET nn == { i \in 1..Len(col) : ~IsNull(col[i]) } IN
    IF v < 2 \/ nn = {} THEN [i \in 1..Len(col) |-> ParseCell(col[i], v)]
    ELSE LET first == col[CHOOSE i \in nn : \A j \in nn : i <= j]
             fmt   == GuessFormat(first, v)
         IN  IF IsNull(fmt) THEN [i \in 1..Len(col) |-> ParseCell(col[i], v)]
             ELSE [i \in 1..Len(col) |-> ParseWith(col[i], fmt[1], v)]

\* Series.dt.year of one cell: NaN for NaT.
Year(f) == IF IsNull(f) THEN NULL ELSE Some(f[1])

(***************************************************************************)
(* The arguments the model passes to agregar_suceso.                       *)
(***************************************************************************)
Columns == <<"id", "fecha", "tipo", "subtipo", "lugar", "lat", "lon",
             "gravedad", "impacto", "fuente", "notas">>

Base == [ fecha    |-> Some(StrFecha(<<2026, 3, 15>>)),
          tipo     |-> "Inundacion",
          subtipo  |-> Some("lluvia"),
          lugar    |-> Some("Tec Laguna"),
          lat      |-> Some(25538000),
          lon      |-> Some(-103448000),
          gravedad |-> 3,
          impacto  |-> Some("calles cerradas"),
          fuente   |-> Some(""),
          notas    |-> Some("") ]

\* Base with one argument changed (more where the cases are wanted in one
\* record): dates before, at the edge of and after the five-year window,
\* text that is no date, a date the calendar does not have, a date spelled
\* with slashes, a date before 1677, a latitude and a severity out of range,
\* and absent values.
Entradas ==
    { Base,
      [Base EXCEPT !.fecha = Some(StrFecha(<<current_year - 5, 12, 31>>))],
      [Base EXCEPT !.fecha = Some(StrFecha(<<current_year + 1, 1, 1>>))],
      [Base EXCEPT !.fecha = Some(<<"s", "/", "f">>)],
      [Base EXCEPT !.fecha = Some(<<"2", "0", "2", "5", "-", "0", "2", "-", "2", "9">>),
                   !.lat = Some(123000000), !.gravedad = 9],
      [Base EXCEPT !.tipo = "Sismo", !.fecha = Some(StrFecha(<<current_year - 4, 1, 1>>))],
      [Base EXCEPT !.impacto = NULL],
      [Base EXCEPT !.fecha = Some(<<"2", "0", "2", "6", "/", "0", "3", "/", "1", "5">>)],
      [Base EXCEPT !.fecha = Some(<<"1", "6", "0", "0", "-", "0", "1", "-", "0", "1">>)],
      [Base EXCEPT !.fecha = NULL, !.lon = NULL, !.subtipo = NULL, !.lugar = NULL,
                   !.impacto = NULL, !.fuente = NULL, !.notas = NULL] }

(***************************************************************************)
(* The store.                                                              *)
(***************************************************************************)
\* The id AUTOINCREMENT gives the next row: one more than the largest ever given.
NextId(s) == s + 1

\* The row INSERT INTO sucesos (...) VALUES (?, ...) writes for the arguments a.
InsertRow(id, a) ==
    [ id |-> id, fecha |-> a.fecha, tipo |-> a.tipo, subtipo |-> a.subtipo,
      lugar |-> a.lugar, lat |-> a.lat, lon |-> a.lon, gravedad |-> a.gravedad,
      impacto |-> a.impacto, fuente |-> a.fuente, notas |-> a.notas ]

\* What cargar_datos returns for the rows rs under pandas v: SELECT * in
\* rowid order, the fecha column parsed when the frame is not empty.  A
\* frame is its column names and its rows.
Frame(rs, v) ==
    LET fechas == ToDatetime([i \in 1..Len(rs) |-> rs[i].fecha], v)
    IN  [ cols |-> Columns,
          rows |-> [i \in 1..Len(rs) |-> [rs[i] EXCEPT !.fecha = fechas[i]]] ]

Empty(df) == Len(df.rows) = 0

Range(s) == { s[i] : i \in 1..Len(s) }

(***************************************************************************)
(* The estimator.                                                          *)
(***************************************************************************)
\* exp(-n/5) in millionths: the series sum_k (-n/5)^k / k!, from the term
\* of index k (whose absolute value is term) on, acc being the sum so far.
RECURSIVE ExpSeries(_, _, _, _)
ExpSeries(n, k, term, acc) ==
    IF term = 0 THEN acc
    ELSE ExpSeries(n, k + 1, (term * n) \div (5 * (k + 1)),
                   IF k % 2 = 0 THEN acc + term ELSE acc - term)

\* probabilidad_poisson(n / 5) as f"{p*100:.1f}%" prints it: tenths of a percent.
probabilidad_poisson(n) == ((10 ^ 6 - ExpSeries(n, 0, 10 ^ 6, 0)) + 500) \div 1000

\* df["year"] = df["fecha"].dt.year: the frame with the column year added.
WithYear(df) ==
    [ cols |-> Append(df.cols, "year"),
      rows |-> [i \in 1..Len(df.rows) |->
                  df.rows[i] @@ [year |-> Year(df.rows[i].fecha)]] ]

\* df[df["year"] >= current_year - 4]: NaN compares False.
Recent(y) == ~IsNull(y) /\ y[1] >= current_year - 4

\* resumen_probabilidades(df): one row per tipo of recent["tipo"].value_counts(),
\* "Promedio anual" in hundredths.
resumen_probabilidades(df) ==
    IF Empty(df) THEN {}
    ELSE LET recent == { i \in 1..Len(df.rows) : Recent(Year(df.rows[i].fecha)) }
             n(t) == Cardinality({ i \in recent : df.rows[i].tipo = t })
         IN  { [ Tipo |-> t, Eventos |-> n(t), Promedio |-> (n(t) * 100) \div 5,
                 Probabilidad |-> probabilidad_poisson(n(t)) ]
               : t \in { df.rows[i].tipo : i \in recent } }

\* The frame the caller holds once resumen_probabilidades(df) has returned:
\* the function assigns the column year to the frame it was passed.
AfterResumen(df) == IF Empty(df) THEN df ELSE WithYear(df)

(***************************************************************************)
(* The views.                                                              *)
(***************************************************************************)
\* One cell of df.to_csv(index=False): NULL, NaN, NaT and "" are written as
\* the empty field (NULL here), a date as its ISO text, a number as itself.
CsvCell(c, v) ==
    IF c = "fecha" THEN (IF IsNull(v) THEN NULL ELSE Some(StrFecha(v)))
    ELSE IF c \in {"id", "tipo", "gravedad"} THEN Some(v)
    ELSE IF c \in {"lat", "lon", "year"} THEN v
    ELSE IF v = Some("") THEN NULL ELSE v

ToCsv(df) ==
    [ header |-> df.cols,
      rows   |-> [i \in 1..Len(df.rows) |->
                    [c \in Range(df.cols) |-> CsvCell(c, df.rows[i][c])]] ]

\* df[df["tipo"].isin(tipo_sel) & df["fecha"].dt.year.isin(anio_sel)]
FiltrarOr(df, tipo_sel, anio_sel) ==
    LET keep(r) == r.tipo \in tipo_sel \/ Year(r.fecha) \in anio_sel
    IN  SelectSeq(df.rows, keep)

Filtrar(df, tipo_sel, anio_sel) ==
    LET keep(r) == r.tipo \in tipo_sel /\ Year(r.fecha) \in anio_sel
    IN  SelectSeq(df.rows, keep)

\* filtrado.groupby([year, "tipo"]).size(): the groups; a NaN key is dropped.
Resumen(filtrado) ==
    { <<Year(r.fecha), r.tipo>> : r \in { x \in Range(filtrado) : ~IsNull(Year(x.fecha)) } }

\* The marker of one row of the map.
Marker(r) ==
    [ location |-> <<r.lat[1], r.lon[1]>>,
      radius   |-> 6 + r.gravedad,
      color    |-> IF r.gravedad >= 4 THEN "red" ELSE "orange" ]

\* The loop over df.iterrows() from row i on, with the markers added so far:
\* the popup's row['impacto'][:100] raises TypeError on None.
RECURSIVE Iterrows(_, _, _)
Iterrows(rows, i, markers) ==
    IF i > Len(rows) THEN [mapa |-> markers, error |-> ""]
    ELSE LET r == rows[i] IN
         IF ~IsNull(r.lat) /\ ~IsNull(r.lon)
         THEN IF IsNull(r.impacto)
              THEN [mapa |-> markers, error |-> "TypeError"]
              ELSE Iterrows(rows, i + 1, Append(markers, Marker(r)))
         ELSE Iterrows(rows, i + 1, markers)

\* The value every operation starts its result from.
Salida0 == [ op |-> "none", error |-> "", args |-> <<>>, click |-> FALSE,
             df |-> <<>>,
             tipo_sel |-> {}, anio_sel |-> {},
             filtrado |-> <<>>, chart |-> FALSE, tabla_probs |-> {},
             csv |-> [header |-> <<>>, rows |-> <<>>],
             mapa |-> <<>>, rendered |-> FALSE ]

Init ==
    /\ tabla = FALSE
    /\ filas = <<>>
    /\ seq = 0
    /\ allow_write \in BOOLEAN
    /\ pandas \in 1..3
    /\ out = Salida0

\* crear_db(): CREATE TABLE IF NOT EXISTS sucesos.
crear_db_drop ==
    /\ tabla' = TRUE
    /\ filas' = <<>>
    /\ out' = [Salida0 EXCEPT !.op = "crear_db"]
    /\ UNCHANGED <<seq, allow_write, pandas>>

crear_db ==
    /\ tabla' = TRUE
    /\ out' = [Salida0 EXCEPT !.op = "crear_db"]
    /\ UNCHANGED <<filas, seq, allow_write, pandas>>

\* The effect of agregar_suceso(a) on the store.
Insertar(a) ==
    /\ filas' = Append(filas, InsertRow(NextId(seq), a))
    /\ seq' = NextId(seq)

\* agregar_suceso(fecha, ..., notas) called with the arguments a.
agregar_suceso(a) ==
    /\ Len(filas) < MaxRows
    /\ IF tabla
       THEN /\ Insertar(a)
            /\ out' = [Salida0 EXCEPT !.op = "agregar_suceso", !.args = a]
       ELSE /\ out' = [Salida0 EXCEPT !.op = "agregar_suceso", !.args = a,
                                       !.error = "OperationalError"]
            /\ UNCHANGED <<filas, seq>>
    /\ UNCHANGED <<tabla, allow_write, pandas>>

\* cargar_datos().
cargar_datos ==
    /\ IF tabla
       THEN out' = [Salida0 EXCEPT !.op = "cargar_datos", !.df = Some(Frame(filas, pandas))]
       ELSE out' = [Salida0 EXCEPT !.op = "cargar_datos", !.error = "DatabaseError"]
    /\ UNCHANGED <<tabla, filas, seq, allow_write, pandas>>

(***************************************************************************)
(* TAB 1: the record-entry view (lines 98-126).  The block does not        *)
(* compile: "if allow_write:" (line 120) is followed by a line indented    *)
(* less, so none of it runs, whatever the flag and whatever the user does. *)
(* (Were line 120 given a body, lines 121 and 126 would still call         *)
(* st.form_submit_button outside the form, which Streamlit refuses before  *)
(* line 123 is reached.)                                                   *)
(***************************************************************************)
\* The user opens the tab and, when click, tries to press "Guardar suceso".
Tab1Registro(click) ==
    /\ out' = [Salida0 EXCEPT !.op = "tab1", !.click = click,
                               !.error = "IndentationError"]
    /\ UNCHANGED <<tabla, filas, seq, allow_write, pandas>>

(***************************************************************************)
(* TAB 2: the analysis view.                                               *)
(***************************************************************************)
\* The options of the two multiselects.
Tipos(df) == { df.rows[i].tipo : i \in 1..Len(df.rows) }

Anios(df) == { Year(df.rows[i].fecha) : i \in 1..Len(df.rows) }

\* One run of the tab, the user having chosen tipo_sel and anio_sel among
\* the options.  (df, tabla_probs and csv are bound by \E over a singleton so
\* that each is evaluated once for all the selections.)
Tab2Analisis ==
    /\ IF ~tabla
       THEN out' = [Salida0 EXCEPT !.op = "tab2", !.error = "DatabaseError"]
       ELSE \E df \in {Frame(filas, pandas)} :
         IF Empty(df)
         THEN out' = [Salida0 EXCEPT !.op = "tab2"]
         ELSE \E tabla_probs \in {resumen_probabilidades(df)},
                 csv \in {ToCsv(AfterResumen(df))},
                 tipo_sel \in SUBSET Tipos(df), anio_sel \in SUBSET Anios(df) :
                \E filtrado \in {Filtrar(df, tipo_sel, anio_sel)} :
                   out' = [Salida0 EXCEPT !.op = "tab2",
                              !.tipo_sel = tipo_sel, !.anio_sel = anio_sel,
                              !.filtrado = filtrado,
                              !.chart = (Resumen(filtrado) # {}),
                              !.tabla_probs = tabla_probs,
                              !.csv = csv]
    /\ UNCHANGED <<tabla, filas, seq, allow_write, pandas>>

(***************************************************************************)
(* TAB 3: the map.                                                         *)
(***************************************************************************)
Tab3Mapa ==
    /\ IF ~tabla
       THEN out' = [Salida0 EXCEPT !.op = "tab3", !.error = "DatabaseError"]
       ELSE \E df \in {Frame(filas, pandas)} :
         IF Empty(df)
         THEN out' = [Salida0 EXCEPT !.op = "tab3"]
         ELSE \E it \in {Iterrows(df.rows, 1, <<>>)} :
                out' = [Salida0 EXCEPT !.op = "tab3", !.mapa = it.mapa,
                           !.error = it.error, !.rendered = (it.error = "")]
    /\ UNCHANGED <<tabla, filas, seq, allow_write, pandas>>

\* The units of the file, each run on its own.
Next ==
    \/ crear_db
    \/ \E a \in Entradas : agregar_suceso(a)
    \/ cargar_datos
    \/ \E click \in BOOLEAN : Tab1Registro(click)
    \/ Tab2Analisis
    \/ Tab3Mapa

Spec == Init /\ [][Next]_vars

(***************************************************************************)
(* The claims.                                                             *)
(***************************************************************************)
\* An insert has just succeeded: agregar_suceso returned.
Guardo(o) == o.op = "agregar_suceso" /\ o.error = ""

\* Calendar dates, for stating which date texts are well formed.
Fechas ==
    { d \in { <<y, m, dd>> : y \in {1600, 2020} \cup ((current_year - 5)..(current_year + 1)),
                             m \in {1, 2, 3, 10, 12}, dd \in {1, 15, 28, 29, 30, 31} } :
        d[3] <= DaysIn(d[1], d[2]) }

\* The date a well-formed date text denotes; NULL for any other text.
DateOf(t) ==
    IF \E d \in Fechas : t = Some(StrFecha(d))
    THEN CHOOSE d \in Fechas : t = Some(StrFecha(d))
    ELSE NULL

InRange(v, lo, hi) == IsNull(v) \/ (v[1] >= lo /\ v[1] <= hi)

\* The constraints of the data model on the arguments of an insert.
ValidRecord(a) ==
    /\ ~IsNull(DateOf(a.fecha))
    /\ a.gravedad \in 1..5
    /\ InRange(a.lat, -90000000, 90000000)
    /\ InRange(a.lon, -180000000, 180000000)

\* The five most recent calendar years.
InWindow(y) == ~IsNull(y) /\ y[1] >= current_year - 4 /\ y[1] <= current_year

HasCoords(r) == ~IsNull(r.lat) /\ ~IsNull(r.lon)

\* C1 (as claimed): an insert of a valid record followed by a load returns the rows that
\* were loaded before plus exactly one new row, which carries every
\* argument with the value passed in (the date as the date its text
\* denotes) and an id no earlier row has.
C1_InsertThenLoad ==
    [][ (Guardo(out') /\ ValidRecord(out'.args)) =>
          LET S == Frame(filas, pandas).rows
              T == Frame(filas', pandas).rows
              a == out'.args
              r == T[Len(T)]
          IN  /\ Len(T) = Len(S) + 1
              /\ \A i \in 1..Len(S) : T[i] = S[i]
              /\ r.fecha = DateOf(a.fecha)
              /\ r.tipo = a.tipo /\ r.subtipo = a.subtipo /\ r.lugar = a.lugar
              /\ r.lat = a.lat /\ r.lon = a.lon /\ r.gravedad = a.gravedad
              /\ r.impacto = a.impacto /\ r.fuente = a.fuente /\ r.notas = a.notas
              /\ \A i \in 1..Len(S) : S[i].id # r.id ]_vars

\* C2: the store is append-only: every step keeps every row, with its id
\* and values, at its place, so the row count never decreases, and leaves
\* no two rows with the same id (the store starts empty); crear_db on a
\* populated store changes no row.
C2_AppendOnly ==
    [][ /\ Len(filas') >= Len(filas)
        /\ \A i \in 1..Len(filas) : filas'[i] = filas[i]
        /\ \A i, j \in 1..Len(filas') : filas'[i].id = filas'[j].id => i = j
        /\ (out'.op = "crear_db" => filas' = filas) ]_vars

\* crear_db has run again on a store that holds two rows.
C2_Witness == out.op = "crear_db" /\ Len(filas) = 2 /\ filas[1].id # filas[2].id

\* C3 (as claimed): a press of "Guardar suceso" in the record-entry view
\* leaves the store as it was when the flag is off and inserts exactly one
\* record when the flag is on.
C3_WriteFlagGatesInsert ==
    [][ (out'.op = "tab1" /\ out'.click) =>
          IF allow_write
          THEN Len(filas') = Len(filas) + 1
          ELSE filas' = filas ]_vars

\* C4 (as claimed): every stored record has gravedad in 1..5, lat in
\* [-90, 90], lon in [-180, 180] and a date text that spells a calendar
\* date: an insert of anything else is rejected and stores nothing.
C4_RecorderValidates ==
    \A i \in 1..Len(filas) :
        /\ filas[i].gravedad \in 1..5
        /\ InRange(filas[i].lat, -90000000, 90000000)
        /\ InRange(filas[i].lon, -180000000, 180000000)
        /\ ~IsNull(ParseCell(filas[i].fecha, 3))

\* C5 (as claimed): the estimator counts a record if and only if its year
\* is one of the five most recent: for every tipo, the count shown (none
\* shown: 0) is the number of its records from current_year - 4 to
\* current_year.
C5_CountsWindowOnly ==
    (out.op = "tab2" /\ Len(filas) > 0) =>
        LET df == Frame(filas, pandas)
            shown(t) == IF \E p \in out.tabla_probs : p.Tipo = t
                        THEN (CHOOSE p \in out.tabla_probs : p.Tipo = t).Eventos
                        ELSE 0
        IN  \A t \in Tipos(df) :
              shown(t) = Cardinality({ i \in 1..Len(df.rows) :
                             df.rows[i].tipo = t /\ InWindow(Year(df.rows[i].fecha)) })

\* C6 (as claimed): the probability table has exactly one row for each tipo
\* with a record in the five-year window and none for another tipo; the
\* row's count is the number of those records, its rate count / 5 and its
\* probability 1 - exp(-rate); no record gives no row.
C6_OneRowPerWindowTipo ==
    (tabla /\ out.op = "tab2") =>
        LET df == Frame(filas, pandas)
            inw(t) == { i \in 1..Len(df.rows) :
                          df.rows[i].tipo = t /\ InWindow(Year(df.rows[i].fecha)) }
        IN  /\ { p.Tipo : p \in out.tabla_probs } = { t \in Tipos(df) : inw(t) # {} }
            /\ \A p, q \in out.tabla_probs : p.Tipo = q.Tipo => p = q
            /\ \A p \in out.tabla_probs :
                 /\ p.Eventos = Cardinality(inw(p.Tipo))
                 /\ 5 * p.Promedio = 100 * p.Eventos
                 /\ p.Probabilidad = probabilidad_poisson(p.Eventos)
            /\ out.error = ""

\* C7: the filtered table is exactly the loaded rows whose tipo is selected
\* and whose year is selected, each as it was loaded and in the loaded
\* order; with no existing tipo selected it has no row, nothing is raised
\* and no chart is drawn.
C7_FilterIsConjunction ==
    (out.op = "tab2" /\ Len(filas) > 0) =>
        LET df == Frame(filas, pandas)
            match == { i \in 1..Len(df.rows) :
                         /\ df.rows[i].tipo \in out.tipo_sel
                         /\ Year(df.rows[i].fecha) \in out.anio_sel }
        IN  /\ Range(out.filtrado) = { df.rows[i] : i \in match }
            /\ Len(out.filtrado) = Cardinality(match)
            /\ \A i, j \in 1..Len(out.filtrado) :
                 i < j => out.filtrado[i].id < out.filtrado[j].id
            /\ (out.tipo_sel \cap Tipos(df) = {} =>
                  out.filtrado = <<>> /\ ~out.chart /\ out.error = "")

\* Of two loaded rows the filter has kept one and dropped the other.
C7_Witness ==
    /\ out.op = "tab2" /\ Len(filas) = 2
    /\ Len(out.filtrado) = 1
    /\ out.tipo_sel = Tipos(Frame(filas, pandas))
    /\ out.anio_sel # {}

\* C8 (as claimed): the CSV of the analysis view has the stored column
\* names as its header, none added or missing, and one data row per row of
\* the store.
C8_CsvHeaderIsColumns ==
    (out.op = "tab2" /\ Len(filas) > 0) =>
        /\ out.csv.header = Columns
        /\ Len(out.csv.rows) = Len(filas)

\* C9 (as claimed): the map is rendered with exactly one marker for each
\* row that has both coordinates and none for a row missing one.
C9_OneMarkerPerLocatedRow ==
    (out.op = "tab3" /\ Len(filas) > 0) =>
        LET located == SelectSeq(Frame(filas, pandas).rows, HasCoords)
        IN  /\ out.rendered
            /\ Len(out.mapa) = Len(located)
            /\ \A i \in 1..Len(out.mapa) :
                 out.mapa[i].location = <<located[i].lat[1], located[i].lon[1]>>

\* C10 (as claimed): whatever optional value of a stored row is absent or
\* empty, and whatever its date text, the loader, the analysis view and the
\* map complete without raising.
C10_AbsentDataNeverRaises ==
    (tabla /\ out.op \in {"cargar_datos", "tab2", "tab3"}) => out.error = ""

====
